---- MODULE Spec2Model ----
(***************************************************************************)
(* Two-step limousine booking flow of Salehin-07/mcl:                      *)
(*   src/bookings/views.py  (Nominatim/OSRM provider, view `bookings`)     *)
(*   src/orders/views.py    (Google Maps provider,    view `orders`)       *)
(*                                                                         *)
(* Units.  Python floats are modelled by exact integers:                   *)
(*   distance_km  : hundredths of a kilometre  (12.34 km  -> 1234)         *)
(*   money        : cents                      (30.00     -> 3000)         *)
(*   unrounded money (subtotal, distance*per_km) : hundredths of a cent,   *)
(*                  so that cents/km * hundredths-of-km needs no division. *)
(* round(x, 2) of a float whose decimal value lies exactly between two     *)
(* cents depends on the binary representation error of x and goes up for   *)
(* some inputs and down for others; the direction is an explicit           *)
(* parameter (`up`) that the actions choose nondeterministically.  Away    *)
(* from such ties the float error (~1e-13) never changes the result.       *)
(***************************************************************************)
EXTENDS Integers, Sequences, FiniteSets, TLC

\* ------------------------------------------------------------------------
\* Bounds of the model
\* ------------------------------------------------------------------------
MaxDist == 200       \* pricing specification: distances 0..MaxDist (hundredths of km)
MaxRequests == 3     \* flow specification: requests handled in one behaviour

\* Python's None where the other values are names (exception, template)
None == "None"
\* Python's None where the other values are strings (sequences of characters)
NoneStr == <<"None">>

\* ------------------------------------------------------------------------
\* Python helpers
\* ------------------------------------------------------------------------

\* str.strip() on a string modelled as a sequence of one-character strings
RECURSIVE lstrip(_)
lstrip(str) ==
    IF str = <<>> THEN <<>>
    ELSE IF Head(str) = " " THEN lstrip(Tail(str)) ELSE str

RECURSIVE rstrip(_)
rstrip(str) ==
    IF str = <<>> THEN <<>>
    ELSE IF str[Len(str)] = " " THEN rstrip(SubSeq(str, 1, Len(str) - 1)) ELSE str

strip(str) == rstrip(lstrip(str))

\* request.POST.get(key, default)
POST_get(POST, key, default) == IF key \in DOMAIN POST THEN POST[key] ELSE default

\* session.pop(key, default): the value returned
pop_value(sess, key, default) == IF key \in DOMAIN sess THEN sess[key] ELSE default

\* session.get(key, default) in place of pop: the key stays
pop_rest_keeps(sess, key) == sess

\* session.pop(key, default): the session afterwards
pop_rest(sess, key) == [k \in (DOMAIN sess) \ {key} |-> sess[k]]

\* session[key] = value
set_item(sess, key, value) == [k \in (DOMAIN sess) \cup {key} |-> IF k = key THEN value ELSE sess[k]]

\* round(x, 2) for x in hundredths of a cent, result in cents; `up` decides
\* an exact tie (x ends in ...50), every other value goes to the nearest cent
round2(x, up) ==
    IF x % 100 = 50 THEN (IF up THEN x \div 100 + 1 ELSE x \div 100)
    ELSE (x + 50) \div 100

\* round(distance_m / 1000, 2): metres to hundredths of a kilometre
round_km(distance_m, up) ==
    IF distance_m % 10 = 5 THEN (IF up THEN distance_m \div 10 + 1 ELSE distance_m \div 10)
    ELSE (distance_m + 5) \div 10

\* the tie directions an evaluation of round() can take on x (modulus m, tie at h)
TieChoices(x, m, h) == IF x % m = h THEN BOOLEAN ELSE {FALSE}

\* ------------------------------------------------------------------------
\* Pricing (bookings/views.py 126-150, orders/views.py 90-115)
\* ------------------------------------------------------------------------

\* rates table of the bookings view, in cents
bookings_rates ==
    [x \in {"Sedan 1-5", "SUV 1-7", "Stretch 1-13"} |->
        CASE x = "Sedan 1-5"    -> [base |-> 3000,  per_km |-> 350, stop |-> 1500]
          [] x = "SUV 1-7"      -> [base |-> 5500,  per_km |-> 550, stop |-> 2500]
          [] x = "Stretch 1-13" -> [base |-> 13500, per_km |-> 950, stop |-> 6500]]

\* an unknown tier falls back to another row of the table
bookings_conf_suv(service_type) ==
    IF service_type \in DOMAIN bookings_rates
    THEN bookings_rates[service_type] ELSE bookings_rates["SUV 1-7"]

\* conf = rates.get(service_type, rates["Sedan 1-5"])
bookings_conf(service_type) ==
    IF service_type \in DOMAIN bookings_rates
    THEN bookings_rates[service_type] ELSE bookings_rates["Sedan 1-5"]

\* subtotal, final_price and breakdown of the bookings view.
\* extra_stop is None or a non-empty string; tieS / tieD are the directions
\* round() takes on a tie of the subtotal / of distance_km * per_km.
bookings_price(service_type, distance_km, extra_stop, has_tolls, has_baby_seat, is_return_ride, tieS, tieD) ==
    LET conf == bookings_conf(service_type)
        subtotal == 100 * conf.base + distance_km * conf.per_km
                    + (IF extra_stop # NoneStr THEN 100 * conf.stop ELSE 0)
                    + (IF has_tolls THEN 100 * 1850 ELSE 0)
                    + (IF has_baby_seat THEN 100 * 2000 ELSE 0)
        final_price == round2(IF is_return_ride THEN subtotal * 2 ELSE subtotal, tieS)
        breakdown == [base                   |-> conf.base,
                      distance_km            |-> distance_km,
                      distance_cost          |-> round2(distance_km * conf.per_km, tieD),
                      stop_cost              |-> IF extra_stop # NoneStr THEN conf.stop ELSE 0,
                      toll_cost              |-> IF has_tolls THEN 1850 ELSE 0,
                      baby_cost              |-> IF has_baby_seat THEN 2000 ELSE 0,
                      return_multiplier      |-> is_return_ride,
                      subtotal_before_return |-> round2(subtotal, tieS)]
    IN  [final_price |-> final_price, breakdown |-> breakdown]

\* rates table of the orders view, in cents
orders_rates ==
    [x \in {"Sedan 1-5", "SUV 1-7", "Stretch 1-13"} |->
        CASE x = "Sedan 1-5"    -> [base |-> 3000,  per_km |-> 350, stop |-> 1500]
          [] x = "SUV 1-7"      -> [base |-> 5500,  per_km |-> 550, stop |-> 2500]
          [] x = "Stretch 1-13" -> [base |-> 13500, per_km |-> 950, stop |-> 6500]]

\* conf = rates.get(service_type, rates['Sedan 1-5'])
orders_conf(service_type) ==
    IF service_type \in DOMAIN orders_rates
    THEN orders_rates[service_type] ELSE orders_rates["Sedan 1-5"]

\* the return ride doubles the base fare and the distance, not the surcharges
orders_price_base_doubled(service_type, distance_km, extra_stop, has_tolls, has_baby_seat, is_return_ride, tieS, tieD) ==
    LET conf == orders_conf(service_type)
        fare == 100 * conf.base + distance_km * conf.per_km
        surcharges == (IF extra_stop # NoneStr THEN 100 * conf.stop ELSE 0)
                      + (IF has_tolls THEN 100 * 1850 ELSE 0)
                      + (IF has_baby_seat THEN 100 * 2000 ELSE 0)
        subtotal == fare + surcharges
        final_price == round2(IF is_return_ride THEN fare * 2 + surcharges ELSE subtotal, tieS)
        breakdown == [base                   |-> conf.base,
                      distance_km            |-> distance_km,
                      distance_cost          |-> round2(distance_km * conf.per_km, tieD),
                      stop_cost              |-> IF extra_stop # NoneStr THEN conf.stop ELSE 0,
                      toll_cost              |-> IF has_tolls THEN 1850 ELSE 0,
                      baby_cost              |-> IF has_baby_seat THEN 2000 ELSE 0,
                      return_multiplier      |-> is_return_ride,
                      subtotal_before_return |-> round2(subtotal, tieS)]
    IN  [final_price |-> final_price, breakdown |-> breakdown]

\* subtotal, final_price and breakdown of the orders view
orders_price(service_type, distance_km, extra_stop, has_tolls, has_baby_seat, is_return_ride, tieS, tieD) ==
    LET conf == orders_conf(service_type)
        subtotal == 100 * conf.base + distance_km * conf.per_km
                    + (IF extra_stop # NoneStr THEN 100 * conf.stop ELSE 0)
                    + (IF has_tolls THEN 100 * 1850 ELSE 0)
                    + (IF has_baby_seat THEN 100 * 2000 ELSE 0)
        final_price == round2(IF is_return_ride THEN subtotal * 2 ELSE subtotal, tieS)
        breakdown == [base                   |-> conf.base,
                      distance_km            |-> distance_km,
                      distance_cost          |-> round2(distance_km * conf.per_km, tieD),
                      stop_cost              |-> IF extra_stop # NoneStr THEN conf.stop ELSE 0,
                      toll_cost              |-> IF has_tolls THEN 1850 ELSE 0,
                      baby_cost              |-> IF has_baby_seat THEN 2000 ELSE 0,
                      return_multiplier      |-> is_return_ride,
                      subtotal_before_return |-> round2(subtotal, tieS)]
    IN  [final_price |-> final_price, breakdown |-> breakdown]

\* ------------------------------------------------------------------------
\* Exceptions: a call yields [raised |-> class name] or [raised |-> None, value |-> v]
\* ------------------------------------------------------------------------
Raise(exc, msg) == [raised |-> exc, msg |-> msg, value |-> 0]
Return(v) == [raised |-> None, msg |-> None, value |-> v]

\* no except clause for ValueError
IsValueError_never(exc) == FALSE

\* isinstance(e, ValueError)
IsValueError(exc) == exc \in {"ValueError"}
\* isinstance(e, requests.RequestException)
IsRequestException(exc) == exc \in {"HTTPError", "Timeout", "ConnectionError"}

\* ------------------------------------------------------------------------
\* Route resolver of the bookings view (Nominatim + OSRM)
\* env.nominatim : "match" | "empty" | "no_lon" | "http_error" | "timeout"
\* env.osrm      : "Ok" | "NoRoute" | "no_routes" | "http_error" | "timeout"
\* env.distance_m: routes[0].distance of an Ok answer, in metres
\* ------------------------------------------------------------------------
geocode(address, env) ==
    CASE env.nominatim = "timeout"    -> Raise("Timeout", "timed out")
      [] env.nominatim = "http_error" -> Raise("HTTPError", "bad status")
      [] env.nominatim = "empty"      -> Raise("ValueError", "Address not found")
      [] env.nominatim = "no_lon"     -> Raise("KeyError", "lon")
      [] OTHER                        -> Return(address)

get_route(origin, destination, waypoint, env) ==
    LET origin_coords == geocode(origin, env)
        dest_coords   == geocode(destination, env)
        wp            == IF waypoint # NoneStr THEN geocode(waypoint, env) ELSE Return(waypoint)
    IN  CASE origin_coords.raised # None -> origin_coords
          [] dest_coords.raised # None   -> dest_coords
          [] wp.raised # None            -> wp
          [] env.osrm = "timeout"        -> Raise("Timeout", "timed out")
          [] env.osrm = "http_error"     -> Raise("HTTPError", "bad status")
          [] env.osrm = "NoRoute"        -> Raise("ValueError", "OSRM could not calculate a route for the given addresses.")
          [] env.osrm = "no_routes"      -> Raise("IndexError", "list index out of range")
          [] OTHER                       -> Return(round_km(env.distance_m, env.tie_km))

\* ------------------------------------------------------------------------
\* Route resolver of the orders view (googlemaps client)
\* env.client     : "ok" | "invalid_key"      (googlemaps.Client(key=...))
\* env.directions : "legs" | "empty" | "no_legs" | "api_error" | "transport_error" | "timeout"
\* env.legs       : directions[0]['legs'], each leg [distance |-> metres,
\*                    toll |-> some step's html_instructions contains "Toll road"]
\* ------------------------------------------------------------------------
googlemaps_Client(env) ==
    IF env.client = "invalid_key" THEN Raise("ValueError", "Invalid API key provided.") ELSE Return("gmaps")

gmaps_directions(origin, destination, waypoints, env) ==
    CASE env.directions = "api_error"       -> Raise("ApiError", "NOT_FOUND")
      [] env.directions = "transport_error" -> Raise("TransportError", "connection failed")
      [] env.directions = "timeout"         -> Raise("Timeout", "timed out")
      [] OTHER                              -> Return(env.directions)

\* sum(leg['distance']['value'] for leg in directions[0]['legs'])
RECURSIVE total_meters(_)
total_meters(legs) ==
    IF legs = <<>> THEN 0 ELSE Head(legs).distance + total_meters(Tail(legs))

\* any("Toll road" in step.get('html_instructions', '') for leg in legs for step in leg['steps'])
any_toll(legs) == \E i \in 1..Len(legs) : legs[i].toll

\* lines 68-88 of the orders view: [distance_km, has_tolls] or the exception raised
orders_resolve(pickup, destination, extra_stop, env) ==
    LET waypoints  == IF extra_stop # NoneStr THEN <<extra_stop>> ELSE NoneStr
        directions == gmaps_directions(pickup, destination, waypoints, env)
    IN  CASE directions.raised # None     -> directions
          [] directions.value = "empty"   -> Raise("IndexError", "list index out of range")
          [] directions.value = "no_legs" -> Raise("KeyError", "legs")
          [] OTHER -> Return([distance_km |-> round_km(total_meters(env.legs), env.tie_km),
                              has_tolls   |-> any_toll(env.legs)])

\* ------------------------------------------------------------------------
\* Requests and responses
\* ------------------------------------------------------------------------

\* render(request, template, context)
render(template, context) == [raised |-> None, template |-> template, context |-> context]

\* an exception that leaves the view
unhandled(exc) == [raised |-> exc, template |-> None, context |-> [k \in {} |-> None]]

\* the fields both views extract from request.POST (lines 85-90 / 31-36)
pickup_of(POST)         == strip(POST_get(POST, "pickup_address", <<>>))
destination_of(POST)    == strip(POST_get(POST, "destination_address", <<>>))
extra_stop_of(POST)     == LET v == strip(POST_get(POST, "additional_stop", <<>>))
                           IN  IF v = <<>> THEN NoneStr ELSE v
service_type_of(POST)   == POST_get(POST, "limo_service_type", "Sedan 1-5")
has_baby_seat_of(POST)  == "baby_seat" \in DOMAIN POST
is_return_ride_of(POST) == "return_ride" \in DOMAIN POST

\* form_data (lines 92-114 / 39-61); of the pass-through fields only
\* passenger_name is kept
form_data_of(POST) ==
    [passenger_name      |-> POST_get(POST, "passenger_name", <<>>),
     pickup_address      |-> pickup_of(POST),
     destination_address |-> destination_of(POST),
     additional_stop     |-> IF extra_stop_of(POST) # NoneStr THEN extra_stop_of(POST) ELSE <<>>,
     limo_service_type   |-> service_type_of(POST),
     baby_seat           |-> has_baby_seat_of(POST),
     return_ride         |-> is_return_ride_of(POST)]

\* the row takes the price the client submitted, when there is one
new_row_client_price(POST, final_price, objects) ==
    [id                  |-> Len(objects) + 1,
     passenger_name      |-> form_data_of(POST).passenger_name,
     pickup_address      |-> pickup_of(POST),
     destination_address |-> destination_of(POST),
     additional_stop     |-> extra_stop_of(POST),
     limo_service_type   |-> service_type_of(POST),
     baby_seat           |-> has_baby_seat_of(POST),
     return_ride         |-> is_return_ride_of(POST),
     total_price         |-> POST_get(POST, "total_price", final_price)]

\* Model.objects.create(...): the row built from the submission and the price
new_row(POST, final_price, objects) ==
    [id                  |-> Len(objects) + 1,
     passenger_name      |-> form_data_of(POST).passenger_name,
     pickup_address      |-> pickup_of(POST),
     destination_address |-> destination_of(POST),
     additional_stop     |-> extra_stop_of(POST),
     limo_service_type   |-> service_type_of(POST),
     baby_seat           |-> has_baby_seat_of(POST),
     return_ride         |-> is_return_ride_of(POST),
     total_price         |-> final_price]

\* Model.objects.create(...) : env.db = "ok" stores the row, anything else raises
objects_create(POST, final_price, objects, env) ==
    IF env.db = "ok" THEN Return(new_row(POST, final_price, objects))
    ELSE Raise("DatabaseError", "database error")

\* what a view leaves behind: the response, the session and its table
Result(response, sess, objects) == [response |-> response, session |-> sess, objects |-> objects]

\* ------------------------------------------------------------------------
\* View bookings (src/bookings/views.py 69-230)
\* ------------------------------------------------------------------------

\* STEP 1, lines 117-175
bookings_step1(POST, sess, objects, env) ==
    LET pickup         == pickup_of(POST)
        destination    == destination_of(POST)
        extra_stop     == extra_stop_of(POST)
        service_type   == service_type_of(POST)
        has_baby_seat  == has_baby_seat_of(POST)
        is_return_ride == is_return_ride_of(POST)
        form_data      == form_data_of(POST)
        route          == get_route(pickup, destination, extra_stop, env)
        distance_km    == route.value
        has_tolls      == "has_tolls" \in DOMAIN POST
        price          == bookings_price(service_type, distance_km, extra_stop, has_tolls,
                                         has_baby_seat, is_return_ride, env.tieS, env.tieD)
        sess1          == set_item(sess,  "pending_price",     price.final_price)
        sess2          == set_item(sess1, "pending_breakdown", price.breakdown)
        sess3          == set_item(sess2, "pending_has_tolls", has_tolls)
    IN  CASE route.raised = None ->
               Result(render("orders/booking_summary_preview.html",
                             [step        |-> "confirm",
                              form_data   |-> form_data,
                              final_price |-> price.final_price,
                              breakdown   |-> price.breakdown,
                              has_tolls   |-> has_tolls,
                              distance_km |-> distance_km]),
                      sess3, objects)
          [] IsValueError(route.raised) ->
               Result(render("bookings/booking_form.html",
                             [error |-> route.msg, form_data |-> form_data]),
                      sess, objects)
          [] IsRequestException(route.raised) ->
               Result(render("bookings/booking_form.html",
                             [error     |-> "Could not connect to the routing service. Please check your addresses and try again.",
                              form_data |-> form_data]),
                      sess, objects)
          [] OTHER -> Result(unhandled(route.raised), sess, objects)

\* STEP 2 after the price was found, lines 187-227: create the row, pop the
\* display values; sess1 is the session without pending_price
bookings_save(POST, final_price, sess1, objects, env) ==
    LET form_data      == form_data_of(POST)
        is_return_ride == is_return_ride_of(POST)
        new_order      == objects_create(POST, final_price, objects, env)
        breakdown      == pop_value(sess1, "pending_breakdown", [k \in {} |-> 0])
        sess2          == pop_rest(sess1, "pending_breakdown")
        has_tolls      == pop_value(sess2, "pending_has_tolls", FALSE)
        sess3          == pop_rest(sess2, "pending_has_tolls")
    IN  IF new_order.raised = None
        THEN Result(render("orders/booking_confirmed.html",
                           [order     |-> new_order.value,
                            breakdown |-> breakdown,
                            has_tolls |-> has_tolls,
                            is_return |-> is_return_ride]),
                    sess3, Append(objects, new_order.value))
        ELSE Result(render("bookings/booking_form.html",
                           [error     |-> "Could not save your booking: " \o new_order.msg,
                            form_data |-> form_data]),
                    sess1, objects)

\* STEP 2 without the `final_price is None` test
bookings_step2_unchecked(POST, sess, objects, env) ==
    bookings_save(POST, pop_value(sess, "pending_price", 0), pop_rest(sess, "pending_price"), objects, env)

\* STEP 2, lines 178-227.  `final_price is None` is the absence of the key:
\* no value stored under pending_price is None.
bookings_step2(POST, sess, objects, env) ==
    LET final_price == pop_value(sess, "pending_price", 0)
        sess1       == pop_rest(sess, "pending_price")
    IN  IF "pending_price" \notin DOMAIN sess
        THEN Result(render("bookings/booking_form.html",
                           [error     |-> "Your session expired. Please fill in the form again.",
                            form_data |-> form_data_of(POST)]),
                    sess1, objects)
        ELSE bookings_save(POST, final_price, sess1, objects, env)

\* the view: dispatch on method and action, lines 81-82, 117, 178, 230
bookings_view(request, sess, objects, env) ==
    LET action == POST_get(request.POST, "action", "calculate")
    IN  CASE request.method = "POST" /\ action = "calculate" -> bookings_step1(request.POST, sess, objects, env)
          [] request.method = "POST" /\ action = "confirm"   -> bookings_step2(request.POST, sess, objects, env)
          [] OTHER -> Result(render("bookings/booking_form.html", [k \in {} |-> None]), sess, objects)

\* ------------------------------------------------------------------------
\* View orders (src/orders/views.py 8-192)
\* ------------------------------------------------------------------------

\* STEP 1, lines 64-136
orders_step1(POST, sess, objects, env) ==
    LET pickup         == pickup_of(POST)
        destination    == destination_of(POST)
        extra_stop     == extra_stop_of(POST)
        service_type   == service_type_of(POST)
        has_baby_seat  == has_baby_seat_of(POST)
        is_return_ride == is_return_ride_of(POST)
        form_data      == form_data_of(POST)
        gmaps          == googlemaps_Client(env)
        resolved       == orders_resolve(pickup, destination, extra_stop, env)
        distance_km    == resolved.value.distance_km
        has_tolls      == resolved.value.has_tolls
        price          == orders_price(service_type, distance_km, extra_stop, has_tolls,
                                       has_baby_seat, is_return_ride, env.tieS, env.tieD)
        sess1          == set_item(sess,  "pending_price",     price.final_price)
        sess2          == set_item(sess1, "pending_breakdown", price.breakdown)
        sess3          == set_item(sess2, "pending_has_tolls", has_tolls)
    IN  CASE gmaps.raised # None -> Result(unhandled(gmaps.raised), sess, objects)
          [] resolved.raised = None ->
               Result(render("orders/booking_summary_preview.html",
                             [step        |-> "confirm",
                              form_data   |-> form_data,
                              final_price |-> price.final_price,
                              breakdown   |-> price.breakdown,
                              has_tolls   |-> has_tolls,
                              distance_km |-> distance_km]),
                      sess3, objects)
          [] OTHER ->
               Result(render("orders/booking_form.html",
                             [error     |-> "Route calculation failed: " \o resolved.msg,
                              form_data |-> form_data]),
                      sess, objects)

\* the row is stored although the step ends in the error branch
orders_save_partial(POST, final_price, sess1, objects, env) ==
    LET new_order == objects_create(POST, final_price, objects, env)
        sess3     == pop_rest(pop_rest(sess1, "pending_breakdown"), "pending_has_tolls")
    IN  IF new_order.raised = None
        THEN Result(render("orders/booking_confirmed.html",
                           [order     |-> new_order.value,
                            breakdown |-> pop_value(sess1, "pending_breakdown", [k \in {} |-> 0]),
                            has_tolls |-> pop_value(sess1, "pending_has_tolls", FALSE),
                            is_return |-> is_return_ride_of(POST)]),
                    sess3, Append(objects, new_order.value))
        ELSE Result(render("orders/booking_form.html",
                           [error     |-> "Could not save your booking: " \o new_order.msg,
                            form_data |-> form_data_of(POST)]),
                    sess1, Append(objects, new_row(POST, final_price, objects)))

\* STEP 2 after the price was found, lines 149-189: create the row, pop the
\* display values; sess1 is the session without pending_price
orders_save(POST, final_price, sess1, objects, env) ==
    LET form_data      == form_data_of(POST)
        is_return_ride == is_return_ride_of(POST)
        new_order      == objects_create(POST, final_price, objects, env)
        breakdown      == pop_value(sess1, "pending_breakdown", [k \in {} |-> 0])
        sess2          == pop_rest(sess1, "pending_breakdown")
        has_tolls      == pop_value(sess2, "pending_has_tolls", FALSE)
        sess3          == pop_rest(sess2, "pending_has_tolls")
    IN  IF new_order.raised = None
        THEN Result(render("orders/booking_confirmed.html",
                           [order     |-> new_order.value,
                            breakdown |-> breakdown,
                            has_tolls |-> has_tolls,
                            is_return |-> is_return_ride]),
                    sess3, Append(objects, new_order.value))
        ELSE Result(render("orders/booking_form.html",
                           [error     |-> "Could not save your booking: " \o new_order.msg,
                            form_data |-> form_data]),
                    sess1, objects)

\* STEP 2, lines 139-189.  `final_price is None` is the absence of the key:
\* no value stored under pending_price is None.
orders_step2(POST, sess, objects, env) ==
    LET final_price == pop_value(sess, "pending_price", 0)
        sess1       == pop_rest(sess, "pending_price")
    IN  IF "pending_price" \notin DOMAIN sess
        THEN Result(render("orders/booking_form.html",
                           [error     |-> "Your session expired. Please recalculate the price.",
                            form_data |-> form_data_of(POST)]),
                    sess1, objects)
        ELSE orders_save(POST, final_price, sess1, objects, env)

\* the view: dispatch on method and action, lines 27-28, 64, 139, 192
orders_view(request, sess, objects, env) ==
    LET action == POST_get(request.POST, "action", "calculate")
    IN  CASE request.method = "POST" /\ action = "calculate" -> orders_step1(request.POST, sess, objects, env)
          [] request.method = "POST" /\ action = "confirm"   -> orders_step2(request.POST, sess, objects, env)
          [] OTHER -> Result(render("orders/booking_form.html", [k \in {} |-> None]), sess, objects)

\* ------------------------------------------------------------------------
\* Inputs
\* ------------------------------------------------------------------------
Views == {"bookings", "orders"}
Sessions == {"s1", "s2"}

\* a form field that is present with value v, or missing
Present(key, v) == key :> v
Missing == [k \in {} |-> None]

\* a one-way trip in the default tier; the stop is blank after trimming
PlainTrip ==
    Present("pickup_address", <<" ", "A">>) @@ Present("destination_address", <<"B">>)
    @@ Present("additional_stop", <<" ">>)

\* pickup blank after trimming, every option set, and a price field added
\* by the client
OtherTrip ==
    Present("pickup_address", <<" ">>) @@ Present("destination_address", <<"B", " ">>)
    @@ Present("additional_stop", <<"C">>) @@ Present("limo_service_type", "SUV 1-7")
    @@ Present("baby_seat", "on") @@ Present("return_ride", "on")
    @@ Present("has_tolls", "on") @@ Present("passenger_name", <<"P">>)
    @@ Present("total_price", 1)

Request(method, POST) == [method |-> method, POST |-> POST]

\* GET, and a POST whose action is neither calculate nor confirm
FormRequests == {Request("GET", Missing), Request("POST", Present("action", "cancel"))}
\* calculate is the default action
CalculateRequests ==
    {Request("POST", PlainTrip), Request("POST", Present("action", "calculate") @@ OtherTrip)}
ConfirmRequests ==
    {Request("POST", Present("action", "confirm") @@ post) : post \in {PlainTrip, OtherTrip}}

\* metres the routing provider reports in the flow (the rounding ties of the
\* price are the subject of the pricing specification)
FlowMeters == {1000, 2000}

\* rounding directions that matter: away from a tie the direction is FALSE.
\* distance_km * per_km (every per_km ends in .50) and with it the subtotal
\* is a tie exactly when distance_km is odd.
Roundings(distance_m) ==
    {r \in [tie_km : BOOLEAN, tieS : BOOLEAN, tieD : BOOLEAN] :
        /\ r.tie_km \in TieChoices(distance_m, 10, 5)
        /\ r.tieS \in TieChoices(round_km(distance_m, r.tie_km), 2, 1)
        /\ r.tieD \in TieChoices(round_km(distance_m, r.tie_km), 2, 1)}

NoRounding == [tie_km |-> FALSE, tieS |-> FALSE, tieD |-> FALSE]

\* answers of Nominatim and OSRM to one calculate request
BookingsEnvs ==
    UNION {{[nominatim |-> "match", osrm |-> "Ok", distance_m |-> m] @@ r : r \in Roundings(m)} :
              m \in FlowMeters}
    \cup {[nominatim |-> n, osrm |-> "Ok", distance_m |-> 0] @@ NoRounding :
            n \in {"empty", "no_lon"}}
    \cup {[nominatim |-> "match", osrm |-> o, distance_m |-> 0] @@ NoRounding :
            o \in {"NoRoute", "timeout"}}

\* routes the directions provider reports in the flow
FlowLegs ==
    {<<[distance |-> 1000, toll |-> FALSE]>>,
     <<[distance |-> 400, toll |-> FALSE], [distance |-> 1600, toll |-> TRUE]>>}

\* answers of the googlemaps client to one calculate request
OrdersEnvs ==
    UNION {{[client |-> "ok", directions |-> "legs", legs |-> l] @@ r : r \in Roundings(total_meters(l))} :
              l \in FlowLegs}
    \cup {[client |-> "ok", directions |-> d, legs |-> <<>>] @@ NoRounding :
            d \in {"empty", "api_error", "transport_error"}}
    \cup {[client |-> "invalid_key", directions |-> "legs", legs |-> <<>>] @@ NoRounding}

\* outcome of Model.objects.create
DbEnvs == {[db |-> "ok"], [db |-> "error"]}

\* ------------------------------------------------------------------------
\* State
\* ------------------------------------------------------------------------
\* The two views are two implementations of the same flow; a behaviour is the
\* traffic of one of them, fixed by `view`.
VARIABLES
    view,      \* the implementation the clients talk to: "bookings" or "orders"
    session,   \* request.session of every client: key -> value
    objects,   \* rows of the view's table (Bookings / Order), in order of creation
    request,   \* the request handled last: session, method, POST
    world,     \* what the providers and the database answered while it was handled
    response,  \* what the view returned for it
    hist,      \* history of every session (not program state), see Record
    count,     \* requests counted by outcome (not program state)
    calc,      \* pricing specification: arguments and result of one price computation
    handlers   \* double-submit specification: the confirm requests in progress,
               \* each with its position in the view and its local variables

vars == <<view, session, objects, request, world, response, hist, count, calc, handlers>>

PreviewTemplate   == "orders/booking_summary_preview.html"
ConfirmedTemplate == "orders/booking_confirmed.html"

IsCalculate(req) == req.method = "POST" /\ POST_get(req.POST, "action", "calculate") = "calculate"
IsConfirm(req)   == req.method = "POST" /\ POST_get(req.POST, "action", "calculate") = "confirm"

\* the history of a session after a request with result r:
\*   calc_price     the pending_price written by the most recent successful calculate
\*   calc_POST      the form submitted to that calculate
\*   last_calculate how the most recent calculate request ended
\*   confirmed      a confirm request was handled since the most recent successful calculate
Record(h, req, r) ==
    LET calc_ok == IsCalculate(req) /\ r.response.template = PreviewTemplate
    IN  [calc_price     |-> IF calc_ok THEN <<r.session["pending_price"]>> ELSE h.calc_price,
         calc_POST      |-> IF calc_ok THEN <<req.POST>> ELSE h.calc_POST,
         last_calculate |-> IF calc_ok THEN "ok"
                            ELSE IF IsCalculate(req) THEN "failed" ELSE h.last_calculate,
         confirmed      |-> IF calc_ok THEN FALSE
                            ELSE IF IsConfirm(req) THEN TRUE ELSE h.confirmed]

Count(c, req, r) ==
    [requests   |-> c.requests + 1,
     calc_ok    |-> IF IsCalculate(req) /\ r.response.template = PreviewTemplate
                    THEN c.calc_ok + 1 ELSE c.calc_ok,
     confirm_ok |-> IF IsConfirm(req) /\ r.response.template = ConfirmedTemplate
                    THEN c.confirm_ok + 1 ELSE c.confirm_ok]

Init ==
    /\ view \in Views
    /\ session = [s \in Sessions |-> Missing]
    /\ objects = <<>>
    /\ request = [session_key |-> None, method |-> None, POST |-> Missing]
    /\ world = Missing
    /\ response = render(None, Missing)
    /\ hist = [s \in Sessions |->
                 [calc_price |-> <<>>, calc_POST |-> <<>>, last_calculate |-> "none", confirmed |-> FALSE]]
    /\ count = [requests |-> 0, calc_ok |-> 0, confirm_ok |-> 0]
    /\ calc = [pc |-> "idle"]
    /\ handlers = Missing

\* the session of the request is one store shared by all clients
Handle_shared(s, req, env, r) ==
    /\ count.requests < MaxRequests
    /\ world' = env
    /\ session' = [t \in Sessions |-> r.session]
    /\ objects' = r.objects
    /\ response' = r.response
    /\ request' = [session_key |-> s, method |-> req.method, POST |-> req.POST]
    /\ hist' = [hist EXCEPT ![s] = Record(@, req, r)]
    /\ count' = Count(count, req, r)
    /\ UNCHANGED <<view, calc, handlers>>

\* the view handles req of session s in environment env and leaves r behind
Handle(s, req, env, r) ==
    /\ count.requests < MaxRequests
    /\ world' = env
    /\ session' = [session EXCEPT ![s] = r.session]
    /\ objects' = r.objects
    /\ response' = r.response
    /\ request' = [session_key |-> s, method |-> req.method, POST |-> req.POST]
    /\ hist' = [hist EXCEPT ![s] = Record(@, req, r)]
    /\ count' = Count(count, req, r)
    /\ UNCHANGED <<view, calc, handlers>>

bookings_form ==
    /\ view = "bookings"
    /\ \E s \in Sessions, req \in FormRequests :
          Handle(s, req, [db |-> "ok"], bookings_view(req, session[s], objects, [db |-> "ok"]))

bookings_calculate ==
    /\ view = "bookings"
    /\ \E s \in Sessions, req \in CalculateRequests, env \in BookingsEnvs :
          Handle(s, req, env, bookings_view(req, session[s], objects, env))

bookings_confirm ==
    /\ view = "bookings"
    /\ \E s \in Sessions, req \in ConfirmRequests, env \in DbEnvs :
          Handle(s, req, env, bookings_view(req, session[s], objects, env))

orders_form ==
    /\ view = "orders"
    /\ \E s \in Sessions, req \in FormRequests :
          Handle(s, req, [db |-> "ok"], orders_view(req, session[s], objects, [db |-> "ok"]))

orders_calculate ==
    /\ view = "orders"
    /\ \E s \in Sessions, req \in CalculateRequests, env \in OrdersEnvs :
          Handle(s, req, env, orders_view(req, session[s], objects, env))

orders_confirm ==
    /\ view = "orders"
    /\ \E s \in Sessions, req \in ConfirmRequests, env \in DbEnvs :
          Handle(s, req, env, orders_view(req, session[s], objects, env))

Next ==
    \/ bookings_form
    \/ bookings_calculate
    \/ bookings_confirm
    \/ orders_form
    \/ orders_calculate
    \/ orders_confirm

Spec == Init /\ [][Next]_vars

\* ------------------------------------------------------------------------
\* Pricing specification: one price computation on arbitrary arguments
\* ------------------------------------------------------------------------
ExampleDists == {1000, 2000}
Dists == (0..MaxDist) \cup ExampleDists

\* limo_service_type as submitted: missing, a tier of the table, or another name
TierFields ==
    {Missing} \cup {Present("limo_service_type", t) :
                        t \in {"Sedan 1-5", "SUV 1-7", "Stretch 1-13", "Hummer"}}

InitPrice ==
    /\ view \in Views
    /\ session = [s \in Sessions |-> Missing]
    /\ objects = <<>>
    /\ request = [session_key |-> None, method |-> None, POST |-> Missing]
    /\ world = Missing
    /\ response = render(None, Missing)
    /\ hist = [s \in Sessions |->
                 [calc_price |-> <<>>, calc_POST |-> <<>>, last_calculate |-> "none", confirmed |-> FALSE]]
    /\ count = [requests |-> 0, calc_ok |-> 0, confirm_ok |-> 0]
    /\ \E POST \in TierFields, d \in Dists, stop \in {NoneStr, <<"C">>}, tolls, baby, ret \in BOOLEAN :
          calc = [pc |-> "args", POST |-> POST, distance_km |-> d, extra_stop |-> stop,
                  has_tolls |-> tolls, has_baby_seat |-> baby, is_return_ride |-> ret]
    /\ handlers = Missing

\* the computation of lines 126-150 of the bookings view on the arguments
price_bookings ==
    /\ view = "bookings"
    /\ calc.pc = "args"
    /\ \E tieS, tieD \in TieChoices(calc.distance_km, 2, 1) :
          calc' = [calc EXCEPT !.pc = "priced"] @@
                  [price |-> bookings_price(service_type_of(calc.POST), calc.distance_km, calc.extra_stop,
                                            calc.has_tolls, calc.has_baby_seat, calc.is_return_ride,
                                            tieS, tieD),
                   tieS |-> tieS, tieD |-> tieD]
    /\ UNCHANGED <<view, session, objects, request, world, response, hist, count, handlers>>

\* the computation of lines 90-115 of the orders view on the arguments
price_orders ==
    /\ view = "orders"
    /\ calc.pc = "args"
    /\ \E tieS, tieD \in TieChoices(calc.distance_km, 2, 1) :
          calc' = [calc EXCEPT !.pc = "priced"] @@
                  [price |-> orders_price(service_type_of(calc.POST), calc.distance_km, calc.extra_stop,
                                          calc.has_tolls, calc.has_baby_seat, calc.is_return_ride,
                                          tieS, tieD),
                   tieS |-> tieS, tieD |-> tieD]
    /\ UNCHANGED <<view, session, objects, request, world, response, hist, count, handlers>>

NextPrice == price_bookings \/ price_orders

SpecPrice == InitPrice /\ [][NextPrice]_vars

\* ------------------------------------------------------------------------
\* Double-submit specification: two confirm requests of one session handled
\* concurrently after one successful calculate.  Every statement of STEP 2
\* that reads or writes the session or the table is one step; the session
\* store is shared by the handlers and its pop is atomic per key.
\* ------------------------------------------------------------------------
Handlers == {"h1", "h2"}
ConfirmSession == "s1"

FormTemplate(v) == IF v = "bookings" THEN "bookings/booking_form.html" ELSE "orders/booking_form.html"
ExpiredError(v) ==
    IF v = "bookings" THEN "Your session expired. Please fill in the form again."
    ELSE "Your session expired. Please recalculate the price."

\* a confirm request that entered the view: action == "confirm" was read,
\* no statement of STEP 2 has run
received(req, env) ==
    [pc          |-> "received",
     POST        |-> req.POST,
     db          |-> env.db,
     final_price |-> <<>>,
     new_order   |-> Missing,
     breakdown   |-> Missing,
     response    |-> render(None, Missing)]

hist0 == [calc_price |-> <<>>, calc_POST |-> <<>>, last_calculate |-> "none", confirmed |-> FALSE]
count0 == [requests |-> 0, calc_ok |-> 0, confirm_ok |-> 0]

\* the state after one successful calculate of ConfirmSession, with two
\* confirm requests of that session received
InitConfirm ==
    /\ view \in Views
    /\ \E req \in CalculateRequests, env \in (IF view = "bookings" THEN BookingsEnvs ELSE OrdersEnvs) :
          LET r == IF view = "bookings" THEN bookings_view(req, Missing, <<>>, env)
                   ELSE orders_view(req, Missing, <<>>, env)
          IN  /\ r.response.template = PreviewTemplate
              /\ session = [s \in Sessions |-> IF s = ConfirmSession THEN r.session ELSE Missing]
              /\ objects = r.objects
              /\ request = [session_key |-> ConfirmSession, method |-> req.method, POST |-> req.POST]
              /\ world = env
              /\ response = r.response
              /\ hist = [s \in Sessions |-> IF s = ConfirmSession THEN Record(hist0, req, r) ELSE hist0]
              /\ count = Count(count0, req, r)
    /\ calc = [pc |-> "idle"]
    /\ handlers \in [Handlers -> {received(req, env) : req \in ConfirmRequests, env \in DbEnvs}]

\* the price is read with session.get; the key stays in the session
handler_pop_price_get(p) ==
    /\ handlers[p].pc = "received"
    /\ handlers' = [handlers EXCEPT
                       ![p].pc = "popped",
                       ![p].final_price = IF "pending_price" \in DOMAIN session[ConfirmSession]
                                          THEN <<session[ConfirmSession]["pending_price"]>> ELSE <<>>]
    /\ UNCHANGED <<view, session, objects, request, world, response, hist, count, calc>>

\* final_price = request.session.pop("pending_price", None)
handler_pop_price(p) ==
    /\ handlers[p].pc = "received"
    /\ handlers' = [handlers EXCEPT
                       ![p].pc = "popped",
                       ![p].final_price = IF "pending_price" \in DOMAIN session[ConfirmSession]
                                          THEN <<pop_value(session[ConfirmSession], "pending_price", 0)>>
                                          ELSE <<>>]
    /\ session' = [session EXCEPT ![ConfirmSession] = pop_rest(@, "pending_price")]
    /\ UNCHANGED <<view, objects, request, world, response, hist, count, calc>>

\* if final_price is None: return render(form, session-expired error)
handler_expired(p) ==
    /\ handlers[p].pc = "popped"
    /\ handlers[p].final_price = <<>>
    /\ handlers' = [handlers EXCEPT
                       ![p].pc = "done",
                       ![p].response = render(FormTemplate(view),
                                              [error     |-> ExpiredError(view),
                                               form_data |-> form_data_of(handlers[p].POST)])]
    /\ UNCHANGED <<view, session, objects, request, world, response, hist, count, calc>>

\* new_order = Model.objects.create(...); except Exception: return render(form, error)
handler_create(p) ==
    /\ handlers[p].pc = "popped"
    /\ handlers[p].final_price # <<>>
    /\ LET new_order == objects_create(handlers[p].POST, handlers[p].final_price[1], objects,
                                       [db |-> handlers[p].db])
       IN  IF new_order.raised = None
           THEN /\ objects' = Append(objects, new_order.value)
                /\ handlers' = [handlers EXCEPT ![p].pc = "created", ![p].new_order = new_order.value]
           ELSE /\ objects' = objects
                /\ handlers' = [handlers EXCEPT
                                   ![p].pc = "done",
                                   ![p].response = render(FormTemplate(view),
                                                          [error     |-> "Could not save your booking: " \o new_order.msg,
                                                           form_data |-> form_data_of(handlers[p].POST)])]
    /\ UNCHANGED <<view, session, request, world, response, hist, count, calc>>

\* breakdown = request.session.pop("pending_breakdown", {})
handler_pop_breakdown(p) ==
    /\ handlers[p].pc = "created"
    /\ handlers' = [handlers EXCEPT
                       ![p].pc = "breakdown",
                       ![p].breakdown = pop_value(session[ConfirmSession], "pending_breakdown", [k \in {} |-> 0])]
    /\ session' = [session EXCEPT ![ConfirmSession] = pop_rest(@, "pending_breakdown")]
    /\ UNCHANGED <<view, objects, request, world, response, hist, count, calc>>

\* has_tolls = request.session.pop("pending_has_tolls", False); return render(confirmed)
handler_pop_has_tolls(p) ==
    /\ handlers[p].pc = "breakdown"
    /\ handlers' = [handlers EXCEPT
                       ![p].pc = "done",
                       ![p].response = render("orders/booking_confirmed.html",
                                              [order     |-> handlers[p].new_order,
                                               breakdown |-> handlers[p].breakdown,
                                               has_tolls |-> pop_value(session[ConfirmSession], "pending_has_tolls", FALSE),
                                               is_return |-> is_return_ride_of(handlers[p].POST)])]
    /\ session' = [session EXCEPT ![ConfirmSession] = pop_rest(@, "pending_has_tolls")]
    /\ UNCHANGED <<view, objects, request, world, response, hist, count, calc>>

confirm_pop_price     == \E p \in Handlers : handler_pop_price(p)
confirm_expired       == \E p \in Handlers : handler_expired(p)
confirm_create        == \E p \in Handlers : handler_create(p)
confirm_pop_breakdown == \E p \in Handlers : handler_pop_breakdown(p)
confirm_pop_has_tolls == \E p \in Handlers : handler_pop_has_tolls(p)

NextConfirm ==
    \/ confirm_pop_price
    \/ confirm_expired
    \/ confirm_create
    \/ confirm_pop_breakdown
    \/ confirm_pop_has_tolls

SpecConfirm == InitConfirm /\ [][NextConfirm]_vars

\* ------------------------------------------------------------------------
\* Properties of the flow (specification Spec)
\* ------------------------------------------------------------------------

\* the step handles a request
NewRequest == count'.requests = count.requests + 1

FormTemplates == {"bookings/booking_form.html", "orders/booking_form.html"}

ExpiredErrors == {"Your session expired. Please fill in the form again.",
                  "Your session expired. Please recalculate the price."}

\* the form re-rendered with an error and the values of the submitted form
FormWithError(resp, POST) ==
    /\ resp.raised = None
    /\ resp.template \in FormTemplates
    /\ DOMAIN resp.context = {"error", "form_data"}
    /\ resp.context.form_data = form_data_of(POST)

\* the SessionExpired outcome
SessionExpired(resp, POST) ==
    /\ FormWithError(resp, POST)
    /\ resp.context.error \in ExpiredErrors

\* C1: every row a confirm request persists carries as total_price the
\* pending_price that the most recent successful calculate of the same
\* session wrote, whatever the confirm submission contains.
C1_PriceFromSession ==
    [][Len(objects') > Len(objects) =>
          hist[request'.session_key].calc_price = <<objects'[Len(objects')].total_price>>]_vars

\* a row was persisted from a submission that carried another price, after
\* two calculate requests had succeeded
C1_Witness ==
    /\ response.template = ConfirmedTemplate
    /\ count.calc_ok = 2
    /\ "total_price" \in DOMAIN request.POST
    /\ response.context.order.total_price # request.POST["total_price"]
    /\ objects[Len(objects)] = response.context.order
    /\ hist[request.session_key].calc_price = <<response.context.order.total_price>>

\* C2: a confirm request in a session without pending_price ends in the
\* SessionExpired outcome and persists nothing.
C2_ConfirmWithoutPrice ==
    [][(/\ NewRequest
        /\ IsConfirm(request')
        /\ "pending_price" \notin DOMAIN session[request'.session_key])
       => (SessionExpired(response', request'.POST) /\ objects' = objects)]_vars

\* a confirm request was answered with SessionExpired in a session in which
\* no calculate request was ever handled
C2_Witness ==
    /\ IsConfirm(request)
    /\ hist[request.session_key].last_calculate = "none"
    /\ hist[request.session_key].calc_price = <<>>
    /\ SessionExpired(response, request.POST)
    /\ objects = <<>>

\* C3: a confirm request that follows a confirm request of the same session
\* with no successful calculate in between ends in SessionExpired and
\* persists nothing, whether the earlier confirm persisted a row or not.
C3_ConsumedOnce ==
    [][(/\ NewRequest
        /\ IsConfirm(request')
        /\ hist[request'.session_key].confirmed)
       => (SessionExpired(response', request'.POST) /\ objects' = objects)]_vars

\* calculate succeeded, a confirm found the price and failed to persist, and
\* the next confirm of the session was answered with SessionExpired
C3_Witness ==
    /\ IsConfirm(request)
    /\ count.requests = 3
    /\ count.calc_ok = 1
    /\ count.confirm_ok = 0
    /\ hist[request.session_key].last_calculate = "ok"
    /\ hist[request.session_key].confirmed
    /\ SessionExpired(response, request.POST)

\* C4: rows are created only by successful confirm requests, one row each:
\* the number of rows is the number of successful confirms and at most the
\* number of successful calculates, and every other request leaves the rows
\* as they are.
C4_RowsOnlyByConfirm ==
    /\ [](Len(objects) = count.confirm_ok /\ count.confirm_ok <= count.calc_ok)
    /\ [][IF NewRequest /\ IsConfirm(request') /\ response'.template = ConfirmedTemplate
           THEN /\ Len(objects') = Len(objects) + 1
                /\ SubSeq(objects', 1, Len(objects)) = objects
           ELSE objects' = objects]_vars

\* two calculate requests succeeded and one confirm persisted its row
C4_Witness ==
    /\ Len(objects) = 1
    /\ count.calc_ok = 2
    /\ count.confirm_ok = 1

\* the route resolver fails: address not found, no route, provider unavailable
ResolverFailed(v, w) ==
    IF v = "bookings"
    THEN \/ w.nominatim \in {"empty", "http_error", "timeout"}
         \/ w.nominatim = "match" /\ w.osrm \in {"NoRoute", "http_error", "timeout"}
    ELSE w.client = "ok" /\ w.directions \in {"api_error", "empty", "transport_error", "timeout"}

\* C8: a calculate request whose route resolution fails leaves the session
\* (pending_price, pending_breakdown, pending_has_tolls) and the rows as they
\* were and returns the form with an error and the submitted values.
C8_ResolverFailureChangesNothing ==
    [][(NewRequest /\ IsCalculate(request') /\ ResolverFailed(view, world'))
       => (/\ session' = session
           /\ objects' = objects
           /\ FormWithError(response', request'.POST))]_vars

\* the resolver failed in a session that held a pending price, which is still there
C8_Witness ==
    /\ IsCalculate(request)
    /\ ResolverFailed(view, world)
    /\ FormWithError(response, request.POST)
    /\ DOMAIN session[request.session_key] = {"pending_price", "pending_breakdown", "pending_has_tolls"}
    /\ hist[request.session_key].last_calculate = "failed"

\* C9 as stated: no failure leaves a view as an unhandled exception.
C9_AllFailuresCaught == response.raised = None

\* pickup_address or destination_address is empty after trimming
BlankAddress(POST) == pickup_of(POST) = <<>> \/ destination_of(POST) = <<>>

\* C10 as stated: a calculate request with a blank pickup or destination
\* never returns the price preview and never writes the pending state.
C10_BlankAddressRejected ==
    /\ []((IsCalculate(request) /\ BlankAddress(request.POST)) => response.template # PreviewTemplate)
    /\ [][(NewRequest /\ IsCalculate(request') /\ BlankAddress(request'.POST))
           => session' = session]_vars

\* the keys of the pending session state
PendingKeys == {"pending_price", "pending_breakdown", "pending_has_tolls"}

\* the pending state a session holds
pending(sess) == [k \in (DOMAIN sess) \cap PendingKeys |-> sess[k]]

\* C11: a request of one session leaves the pending state of every other
\* session as it was, and a row persisted by a confirm carries the price
\* that was pending in the session of that confirm, written by a calculate
\* of that same session.
C11_PendingPerSession ==
    [][NewRequest =>
          LET s == request'.session_key
          IN  /\ \A t \in Sessions \ {s} : pending(session'[t]) = pending(session[t])
              /\ Len(objects') > Len(objects) =>
                    /\ "pending_price" \in DOMAIN session[s]
                    /\ objects'[Len(objects')].total_price = session[s]["pending_price"]
                    /\ hist[s].calc_price = <<session[s]["pending_price"]>>]_vars

\* both sessions calculated, at different prices; one confirmed and its row
\* carries its own price while the other session still holds its pending state
C11_Witness ==
    /\ IsConfirm(request)
    /\ response.template = ConfirmedTemplate
    /\ count.calc_ok = 2
    /\ \E t \in Sessions \ {request.session_key} :
          /\ DOMAIN session[t] = PendingKeys
          /\ hist[t].calc_price = <<session[t]["pending_price"]>>
          /\ session[t]["pending_price"] # objects[Len(objects)].total_price
          /\ hist[request.session_key].calc_price = <<objects[Len(objects)].total_price>>
          /\ DOMAIN session[request.session_key] \cap PendingKeys = {}

\* C12 as stated: after a confirm request that found a pending_price, the
\* session holds none of pending_price, pending_breakdown, pending_has_tolls,
\* whether the row was persisted or persistence failed.
C12_PendingConsumed ==
    [][(/\ NewRequest
        /\ IsConfirm(request')
        /\ "pending_price" \in DOMAIN session[request'.session_key])
       => (DOMAIN session'[request'.session_key]) \cap PendingKeys = {}]_vars

\* the trip a submission describes: the fields the price depends on and the addresses
TripOf(POST) ==
    [pickup_address      |-> pickup_of(POST),
     destination_address |-> destination_of(POST),
     additional_stop     |-> extra_stop_of(POST),
     limo_service_type   |-> service_type_of(POST),
     baby_seat           |-> has_baby_seat_of(POST),
     return_ride         |-> is_return_ride_of(POST)]

\* the trip stored on a row
TripOfRow(row) ==
    [pickup_address      |-> row.pickup_address,
     destination_address |-> row.destination_address,
     additional_stop     |-> row.additional_stop,
     limo_service_type   |-> row.limo_service_type,
     baby_seat           |-> row.baby_seat,
     return_ride         |-> row.return_ride]

\* C13 as stated: every persisted row carries the price that calculate
\* computed for the trip stored on that row: its tier, stop, baby seat,
\* return ride and addresses are those submitted to the calculate that
\* produced the price, whatever the confirm submission contains.
C13_PriceOfStoredTrip ==
    [][Len(objects') > Len(objects) =>
          LET s   == request'.session_key
              row == objects'[Len(objects')]
          IN  /\ hist[s].calc_price = <<row.total_price>>
              /\ hist[s].calc_POST # <<>>
              /\ TripOfRow(row) = TripOf(hist[s].calc_POST[1])]_vars

\* C14 as stated: when the most recent calculate request of a session
\* failed, a following confirm of that session ends in SessionExpired and
\* persists nothing, also after an earlier calculate that succeeded and
\* was never confirmed.
C14_RejectedCalculateResets ==
    [][(/\ NewRequest
        /\ IsConfirm(request')
        /\ hist[request'.session_key].last_calculate = "failed")
       => (SessionExpired(response', request'.POST) /\ objects' = objects)]_vars

\* what the route resolver of view v delivered in world w for a submission:
\* a distance and a toll flag (the bookings flow takes the flag from the
\* has_tolls checkbox, its provider reports none), or a failure
Outcome(v, w, POST) ==
    IF v = "bookings"
    THEN IF w.nominatim = "match" /\ w.osrm = "Ok"
         THEN [kind |-> "route", distance_km |-> round_km(w.distance_m, w.tie_km),
               has_tolls |-> "has_tolls" \in DOMAIN POST, tieS |-> w.tieS, tieD |-> w.tieD]
         ELSE [kind |-> "failure"]
    ELSE IF w.client = "ok" /\ w.directions = "legs"
         THEN [kind |-> "route", distance_km |-> round_km(total_meters(w.legs), w.tie_km),
               has_tolls |-> any_toll(w.legs), tieS |-> w.tieS, tieD |-> w.tieD]
         ELSE [kind |-> "failure"]

\* the kind of a response
Kind(resp) ==
    CASE resp.raised # None                 -> "unhandled exception"
      [] resp.template = PreviewTemplate    -> "preview"
      [] resp.template = ConfirmedTemplate  -> "confirmation"
      [] "error" \in DOMAIN resp.context    -> "form with error"
      [] OTHER                              -> "form"

\* the worlds in which the other view meets the outcome of the request handled
SameOutcomeWorlds(other, req, w) ==
    IF IsCalculate(req)
    THEN {e \in (IF other = "orders" THEN OrdersEnvs ELSE BookingsEnvs) :
             Outcome(other, e, req.POST) = Outcome(view, w, req.POST)}
    ELSE {w}

\* C16 as stated: the other view, started from the same session and rows,
\* given the same submission and the same resolver outcome (distance and
\* toll flag, or a failure), leaves the same session and the same rows and
\* returns the same kind of response.
C16_FlowsEquivalent ==
    [][NewRequest =>
          LET s     == request'.session_key
              req   == Request(request'.method, request'.POST)
              other == IF view = "bookings" THEN "orders" ELSE "bookings"
          IN  \A e \in SameOutcomeWorlds(other, req, world') :
                 LET r == IF other = "orders"
                          THEN orders_view(req, session[s], objects, e)
                          ELSE bookings_view(req, session[s], objects, e)
                 IN  /\ r.session = session'[s]
                     /\ r.objects = objects'
                     /\ Kind(r.response) = Kind(response')]_vars

\* ------------------------------------------------------------------------
\* Properties of the price computation (specification SpecPrice)
\* ------------------------------------------------------------------------

Priced == calc.pc = "priced"

\* the rate table as the documentation states it, in cents
StatedRates ==
    [t \in {"Sedan 1-5", "SUV 1-7", "Stretch 1-13"} |->
        CASE t = "Sedan 1-5"    -> [base |-> 3000,  per_km |-> 350, stop |-> 1500]
          [] t = "SUV 1-7"      -> [base |-> 5500,  per_km |-> 550, stop |-> 2500]
          [] t = "Stretch 1-13" -> [base |-> 13500, per_km |-> 950, stop |-> 6500]]

\* the closed form in hundredths of a cent, before the final rounding
ClosedForm(tier, d, stop, tolls, baby, ret) ==
    LET once == 100 * StatedRates[tier].base + d * StatedRates[tier].per_km
                + (IF stop THEN 100 * StatedRates[tier].stop ELSE 0)
                + (IF tolls THEN 185000 ELSE 0)
                + (IF baby THEN 200000 ELSE 0)
    IN  IF ret THEN 2 * once ELSE once

\* the arguments of the computation are the given ones
Args(tier, d, stop, tolls, baby, ret) ==
    /\ service_type_of(calc.POST) = tier
    /\ calc.distance_km = d
    /\ (calc.extra_stop # NoneStr) = stop
    /\ calc.has_tolls = tolls
    /\ calc.has_baby_seat = baby
    /\ calc.is_return_ride = ret

\* C5: for every tier of the table, every distance and every combination of
\* options, final_price is the closed form rounded to the cent (a cent
\* nearest to it), and the three worked examples give 65.00, 130.00, 228.50.
C5_ClosedForm ==
    (Priced /\ service_type_of(calc.POST) \in DOMAIN StatedRates) =>
        LET exact == ClosedForm(service_type_of(calc.POST), calc.distance_km, calc.extra_stop # NoneStr,
                                calc.has_tolls, calc.has_baby_seat, calc.is_return_ride)
            final == 100 * calc.price.final_price
        IN  /\ final - exact <= 50
            /\ exact - final <= 50
            /\ Args("Sedan 1-5", 1000, FALSE, FALSE, FALSE, FALSE) => calc.price.final_price = 6500
            /\ Args("Sedan 1-5", 1000, FALSE, FALSE, FALSE, TRUE) => calc.price.final_price = 13000
            /\ Args("SUV 1-7", 2000, TRUE, TRUE, TRUE, FALSE) => calc.price.final_price = 22850

\* the SUV example was priced
C5_Witness ==
    /\ Priced
    /\ Args("SUV 1-7", 2000, TRUE, TRUE, TRUE, FALSE)
    /\ calc.price.final_price = 22850

\* C6 as stated: final_price is subtotal_before_return, times 2 on a return ride.
C6_FinalFromSubtotal ==
    Priced =>
        calc.price.final_price =
            (IF calc.is_return_ride THEN 2 ELSE 1) * calc.price.breakdown.subtotal_before_return

\* C7: a limo_service_type outside the table, or none, gives the price and
\* the breakdown of the same request with limo_service_type "Sedan 1-5".
C7_DefaultTier ==
    (Priced /\ ("limo_service_type" \notin DOMAIN calc.POST
                 \/ service_type_of(calc.POST) \notin DOMAIN StatedRates)) =>
        calc.price =
            IF view = "bookings"
            THEN bookings_price("Sedan 1-5", calc.distance_km, calc.extra_stop, calc.has_tolls,
                                calc.has_baby_seat, calc.is_return_ride, calc.tieS, calc.tieD)
            ELSE orders_price("Sedan 1-5", calc.distance_km, calc.extra_stop, calc.has_tolls,
                              calc.has_baby_seat, calc.is_return_ride, calc.tieS, calc.tieD)

\* a trip of an unknown tier was priced with the Sedan base fare and stop fee
C7_Witness ==
    /\ Priced
    /\ "limo_service_type" \in DOMAIN calc.POST
    /\ calc.POST["limo_service_type"] = "Hummer"
    /\ calc.extra_stop # NoneStr
    /\ calc.price.breakdown.base = 3000
    /\ calc.price.breakdown.stop_cost = 1500

\* C15 as stated: the itemized components of every breakdown sum to the
\* subtotal: base + distance_cost + stop_cost + toll_cost + baby_cost =
\* subtotal_before_return, for every tier, distance and surcharge combination.
C15_ComponentsSum ==
    Priced =>
        LET b == calc.price.breakdown
        IN  b.base + b.distance_cost + b.stop_cost + b.toll_cost + b.baby_cost
                = b.subtotal_before_return

\* ------------------------------------------------------------------------
\* Properties of the double submit (specification SpecConfirm)
\* ------------------------------------------------------------------------

\* the handler found a pending_price
FoundPrice(p) == handlers[p].final_price # <<>>

\* C17: of two confirm requests of one session handled concurrently after
\* one successful calculate, with an atomic pop of pending_price, at most
\* one finds the price and at most one row is persisted, by that one; the
\* other ends in SessionExpired, whatever the interleaving of their steps.
C17_DoubleSubmit ==
    /\ Len(objects) <= 1
    /\ Cardinality({p \in Handlers : FoundPrice(p)}) <= 1
    /\ \A p \in Handlers :
          /\ handlers[p].new_order # Missing =>
                (FoundPrice(p) /\ objects = <<handlers[p].new_order>>)
          /\ (handlers[p].pc = "done" /\ ~FoundPrice(p)) =>
                (SessionExpired(handlers[p].response, handlers[p].POST)
                 /\ handlers[p].new_order = Missing)
    /\ (\A p \in Handlers : handlers[p].pc = "done") =>
          /\ \E p \in Handlers : ~FoundPrice(p)
          /\ Len(objects) = Cardinality({p \in Handlers :
                                            handlers[p].response.template = ConfirmedTemplate})

\* one handler has persisted its row and not yet popped the display values,
\* the other has run in between and ended in SessionExpired
C17_Witness ==
    \E p, q \in Handlers :
        /\ p # q
        /\ handlers[p].pc = "created"
        /\ objects = <<handlers[p].new_order>>
        /\ handlers[p].new_order.total_price = hist[ConfirmSession].calc_price[1]
        /\ handlers[q].pc = "done"
        /\ SessionExpired(handlers[q].response, handlers[q].POST)
        /\ "pending_breakdown" \in DOMAIN session[ConfirmSession]

====
